---------------------------- MODULE Spec2Model ----------------------------
(***************************************************************************)
(* A model of the combine tool (src/main.go): the filtered directory       *)
(* walks (pattern scan, tree assembly, emission, format statistics), the   *)
(* path matcher, the extension filter, the tree renderer and the content   *)
(* compactor.                                                              *)
(*                                                                         *)
(* Strings are sequences of one-character strings (one element per byte    *)
(* or rune), so that prefix tests, globbing, extension extraction, case    *)
(* folding and path cleaning are computed as the code computes them.  The  *)
(* box-drawing runes of the tree renderer and the bytes that make a file   *)
(* binary are written as named one-element tokens.                         *)
(***************************************************************************)
EXTENDS Naturals, Integers, Sequences, FiniteSets, TLC

(***************************************************************************)
(* Characters                                                              *)
(***************************************************************************)

\* The runes U+2514, U+251C, U+2500, U+2502 written by printTreeToString.
BoxUpRight == "<U+2514>"
BoxVertRight == "<U+251C>"
BoxHoriz == "<U+2500>"
BoxVert == "<U+2502>"
\* The zero byte and a byte that is not valid UTF-8, as isTextFile sees them.
NUL == "<0x00>"
BadUTF8 == "<0xFF>"
\* Vertical tab: white space to strings.TrimSpace, but not indentation.
VT == "<0x0B>"

\* Byte values of the characters the model's names and contents use, for
\* Go's bytewise string comparison.
Ord(c) ==
  CASE c = "\t" -> 9
    [] c = "\n" -> 10
    [] c = VT -> 11
    [] c = "\r" -> 13
    [] c = " " -> 32
    [] c = "*" -> 42
    [] c = "." -> 46
    [] c = "/" -> 47
    [] c = "2" -> 50
    [] c = "=" -> 61
    [] c = "?" -> 63
    [] c = "D" -> 68
    [] c = "O" -> 79
    [] c = "P" -> 80
    [] c = "T" -> 84
    [] c = "Y" -> 89
    [] c = "a" -> 97
    [] c = "b" -> 98
    [] c = "c" -> 99
    [] c = "d" -> 100
    [] c = "e" -> 101
    [] c = "g" -> 103
    [] c = "i" -> 105
    [] c = "l" -> 108
    [] c = "m" -> 109
    [] c = "n" -> 110
    [] c = "o" -> 111
    [] c = "p" -> 112
    [] c = "r" -> 114
    [] c = "s" -> 115
    [] c = "t" -> 116
    [] c = "u" -> 117
    [] c = "x" -> 120
    [] c = "y" -> 121
    [] OTHER -> 255

\* strings.ToLower on one character.
ToLowerChar(c) ==
  CASE c = "D" -> "d"
    [] c = "O" -> "o"
    [] c = "P" -> "p"
    [] c = "T" -> "t"
    [] c = "Y" -> "y"
    [] OTHER -> c

\* strings.ToLower.
ToLower(s) == [i \in 1..Len(s) |-> ToLowerChar(s[i])]

\* Go's s < t on strings: bytewise lexicographic order.
RECURSIVE StrLess(_, _)
StrLess(s, t) ==
  IF t = <<>> THEN FALSE
  ELSE IF s = <<>> THEN TRUE
  ELSE IF Head(s) # Head(t) THEN Ord(Head(s)) < Ord(Head(t))
  ELSE StrLess(Tail(s), Tail(t))

\* strings.HasPrefix.
HasPrefix(s, p) == Len(p) <= Len(s) /\ SubSeq(s, 1, Len(p)) = p

\* strings.Contains.
Contains(s, sub) ==
  \E i \in 0..Len(s) : i + Len(sub) <= Len(s) /\ SubSeq(s, i + 1, i + Len(sub)) = sub

\* strings.Repeat.
Repeat(c, n) == [i \in 1..n |-> c]

\* strings.Split(s, sep) for a one-character separator: always at least one
\* element, an empty element between adjacent separators and after a final one.
RECURSIVE SplitFrom(_, _, _)
SplitFrom(s, sep, cur) ==
  IF s = <<>> THEN <<cur>>
  ELSE IF Head(s) = sep THEN <<cur>> \o SplitFrom(Tail(s), sep, <<>>)
  ELSE SplitFrom(Tail(s), sep, Append(cur, Head(s)))

Split(s, sep) == SplitFrom(s, sep, <<>>)

\* strings.Join with a separator string.
RECURSIVE JoinWith(_, _)
JoinWith(parts, sep) ==
  IF parts = <<>> THEN <<>>
  ELSE IF Len(parts) = 1 THEN parts[1]
  ELSE parts[1] \o sep \o JoinWith(Tail(parts), sep)

\* strings.ReplaceAll(s, "\r\n", "\n").
RECURSIVE ReplaceCRLF(_)
ReplaceCRLF(s) ==
  IF s = <<>> THEN <<>>
  ELSE IF Len(s) >= 2 /\ s[1] = "\r" /\ s[2] = "\n" THEN <<"\n">> \o ReplaceCRLF(SubSeq(s, 3, Len(s)))
  ELSE <<Head(s)>> \o ReplaceCRLF(Tail(s))

\* strings.ReplaceAll(s, "\r", "\n").
ReplaceCR(s) == [i \in 1..Len(s) |-> IF s[i] = "\r" THEN "\n" ELSE s[i]]

\* unicode.IsSpace on the characters the model uses.
IsSpace(c) == c \in {" ", "\t", "\n", "\r", VT}

\* strings.TrimSpace.
RECURSIVE TrimLeft(_)
TrimLeft(s) == IF s # <<>> /\ IsSpace(Head(s)) THEN TrimLeft(Tail(s)) ELSE s

RECURSIVE TrimRight(_)
TrimRight(s) ==
  IF s # <<>> /\ IsSpace(s[Len(s)]) THEN TrimRight(SubSeq(s, 1, Len(s) - 1)) ELSE s

TrimSpace(s) == TrimRight(TrimLeft(s))

(***************************************************************************)
(* path/filepath (Unix), lexical operations                                *)
(***************************************************************************)

\* The index of the last "/" in p, 0 if there is none.
LastSlash(p) ==
  IF \E i \in 1..Len(p) : p[i] = "/"
  THEN CHOOSE i \in 1..Len(p) : p[i] = "/" /\ \A j \in (i + 1)..Len(p) : p[j] # "/"
  ELSE 0

\* The elements of a path that Clean keeps: empty and "." elements dropped,
\* "x/.." pairs eliminated (a leading ".." of a relative path is kept).
RECURSIVE CleanParts(_, _, _)
CleanParts(parts, acc, rooted) ==
  IF parts = <<>> THEN acc
  ELSE LET h == Head(parts) IN
       IF h = <<>> \/ h = <<".">> THEN CleanParts(Tail(parts), acc, rooted)
       ELSE IF h = <<".", ".">> THEN
            IF acc # <<>> /\ acc[Len(acc)] # <<".", ".">>
            THEN CleanParts(Tail(parts), SubSeq(acc, 1, Len(acc) - 1), rooted)
            ELSE IF rooted THEN CleanParts(Tail(parts), acc, rooted)
            ELSE CleanParts(Tail(parts), Append(acc, h), rooted)
       ELSE CleanParts(Tail(parts), Append(acc, h), rooted)

\* filepath.Clean.
Clean(p) ==
  LET rooted == p # <<>> /\ p[1] = "/"
      body == JoinWith(CleanParts(Split(p, "/"), <<>>, rooted), <<"/">>)
  IN IF rooted THEN <<"/">> \o body
     ELSE IF body = <<>> THEN <<".">>
     ELSE body

\* filepath.Join of a directory and a name (both non-empty).
Join(dir, name) == Clean(dir \o <<"/">> \o name)

\* filepath.Dir.
Dir(p) == Clean(SubSeq(p, 1, LastSlash(p)))

\* filepath.Base.
RECURSIVE StripTrailingSlashes(_)
StripTrailingSlashes(p) ==
  IF p # <<>> /\ p[Len(p)] = "/" THEN StripTrailingSlashes(SubSeq(p, 1, Len(p) - 1)) ELSE p

Base(p) ==
  IF p = <<>> THEN <<".">>
  ELSE LET q == StripTrailingSlashes(p) IN
       IF q = <<>> THEN <<"/">>
       ELSE SubSeq(q, LastSlash(q) + 1, Len(q))

\* filepath.Ext: the suffix beginning at the final dot of the final element.
Ext(p) ==
  LET from == LastSlash(p) + 1 IN
  IF \E i \in from..Len(p) : p[i] = "."
  THEN LET i == CHOOSE k \in from..Len(p) : p[k] = "." /\ \A j \in (k + 1)..Len(p) : p[j] # "."
       IN SubSeq(p, i, Len(p))
  ELSE <<>>

\* strings.TrimPrefix(s, ".").
TrimDot(s) == IF HasPrefix(s, <<".">>) THEN Tail(s) ELSE s

\* The working directory of the process.
Cwd == <<"/", "w">>

\* filepath.Abs.
Abs(p) == IF p # <<>> /\ p[1] = "/" THEN Clean(p) ELSE Join(Cwd, p)

\* filepath.Rel(base, targ) for a target that is the base or lies below it
\* (every path a walk of the base delivers).
Rel(base, targ) ==
  LET b == Clean(base)
      t == Clean(targ)
  IN IF t = b THEN <<".">>
     ELSE IF b = <<".">> THEN t
     ELSE IF HasPrefix(t, b \o <<"/">>) THEN SubSeq(t, Len(b) + 2, Len(t))
     ELSE t

\* filepath.ToSlash: the identity where the separator is "/".
ToSlash(p) == p

\* filepath.Match for patterns of literals, "*" and "?" (neither matches "/").
RECURSIVE Match(_, _)
Match(pat, name) ==
  IF pat = <<>> THEN name = <<>>
  ELSE IF Head(pat) = "*"
       THEN \E k \in 0..Len(name) :
              /\ \A i \in 1..k : name[i] # "/"
              /\ Match(Tail(pat), SubSeq(name, k + 1, Len(name)))
  ELSE IF name = <<>> THEN FALSE
  ELSE IF Head(pat) = "?" THEN Head(name) # "/" /\ Match(Tail(pat), Tail(name))
  ELSE Head(pat) = Head(name) /\ Match(Tail(pat), Tail(name))

(***************************************************************************)
(* Bounds and program constants                                            *)
(***************************************************************************)

\* The longest content the compactor is run on exhaustively.
MaxContentLen == 4
\* The longest exclusion rule and the longest path the matcher is run on.
MaxRuleLen == 3
MaxPathLen == 4
\* The longest include and exclude extension lists the filter is run on.
MaxExts == 2
\* The most entries below the scan root in a scanned directory.
MaxEntries == 3

\* isTextFile reads the first 512 bytes.
TextWindow == 512
\* A tab counts as 4 columns of indentation, and a depth level is 4 columns.
TabWidth == 4
IndentUnit == 4
\* The separator line holds 80 dashes.
SeparatorWidth == 80

\* All strings over an alphabet of length lo..hi.
StringsOver(alphabet, lo, hi) == UNION {[1..n -> alphabet] : n \in lo..hi}

(***************************************************************************)
(* The filters: isTextFile, containsExt, isExcludedPath,                   *)
(* fileContainsPattern                                                     *)
(***************************************************************************)

\* utf8.Valid on the bytes the model uses.
Utf8Valid(buf) == \A i \in 1..Len(buf) : buf[i] # BadUTF8

\* A plausible slip: the error of os.Open or of the read ignored, the empty
\* buffer classified.
isTextFileErrorIgnored(readable, content) ==
  LET n == IF ~readable THEN 0
           ELSE IF Len(content) < TextWindow THEN Len(content) ELSE TextWindow
      buf == SubSeq(content, 1, n)
  IN IF \E i \in 1..n : buf[i] = NUL THEN FALSE
     ELSE IF ~Utf8Valid(buf) THEN FALSE
     ELSE TRUE

\* isTextFile on a file with the given content; a file that cannot be opened
\* or read is no text file.
isTextFile(readable, content) ==
  IF ~readable THEN FALSE
  ELSE LET n == IF Len(content) < TextWindow THEN Len(content) ELSE TextWindow
           buf == SubSeq(content, 1, n)
       IN IF \E i \in 1..n : buf[i] = NUL THEN FALSE
          ELSE IF ~Utf8Valid(buf) THEN FALSE
          ELSE TRUE

containsExt(exts, ext) ==
  \E i \in 1..Len(exts) : ToLower(exts[i]) = ToLower(ext)

\* A plausible slip: a prefix test without the "/" that ends the segment.
ruleMatchesBarePrefix(normalizedPath, excludedPath) ==
  LET normalizedExcludedPath == ToSlash(excludedPath) IN
  \/ normalizedPath = normalizedExcludedPath
  \/ HasPrefix(normalizedPath, normalizedExcludedPath)
  \/ Match(normalizedExcludedPath, normalizedPath)

\* A plausible slip: the glob tried on the last path segment, the way ignore
\* files do.
ruleMatchesBaseName(normalizedPath, excludedPath) ==
  LET normalizedExcludedPath == ToSlash(excludedPath) IN
  \/ normalizedPath = normalizedExcludedPath
  \/ HasPrefix(normalizedPath, normalizedExcludedPath \o <<"/">>)
  \/ Match(normalizedExcludedPath, Base(normalizedPath))

\* One round of the loop of isExcludedPath: exact, directory prefix, glob.
ruleMatches(normalizedPath, excludedPath) ==
  LET normalizedExcludedPath == ToSlash(excludedPath) IN
  \/ normalizedPath = normalizedExcludedPath
  \/ HasPrefix(normalizedPath, normalizedExcludedPath \o <<"/">>)
  \/ Match(normalizedExcludedPath, normalizedPath)

isExcludedPath(path, excludedPaths) ==
  IF Len(excludedPaths) = 0 THEN FALSE
  ELSE \E i \in 1..Len(excludedPaths) : ruleMatches(ToSlash(path), excludedPaths[i])

\* fileContainsPattern; a file that cannot be read does not match.
fileContainsPattern(readable, content, textPattern) ==
  IF textPattern = <<>> THEN TRUE
  ELSE IF ~readable THEN FALSE
  ELSE Contains(content, textPattern)

\* A plausible slip: the exclude list consulted only when no include list is given.
extFilterExcludeOnlyWithoutInclude(path, incl, excl) ==
  LET ext == TrimDot(Ext(path)) IN
  IF Len(incl) > 0 THEN containsExt(incl, ext)
  ELSE ~containsExt(excl, ext)

\* The extension filter of the two passes of buildDirTree: TRUE when the file
\* is kept.
extFilterTree(path, incl, excl) ==
  LET ext == TrimDot(Ext(path)) IN
  IF Len(incl) > 0 /\ ~containsExt(incl, ext) THEN FALSE
  ELSE IF Len(excl) > 0 /\ containsExt(excl, ext) THEN FALSE
  ELSE TRUE

\* The extension filter of the emission walk, which lowercases the extension
\* before the same two tests.
extFilterEmit(path, incl, excl) ==
  LET ext == ToLower(TrimDot(Ext(path))) IN
  IF Len(incl) > 0 /\ ~containsExt(incl, ext) THEN FALSE
  ELSE IF Len(excl) > 0 /\ containsExt(excl, ext) THEN FALSE
  ELSE TRUE

(***************************************************************************)
(* The content compactor (the compact branch of the emission walk)         *)
(***************************************************************************)

\* A plausible slip: a tab counted as one column.
RECURSIVE indentOfTabAsOne(_)
indentOfTabAsOne(line) ==
  IF line = <<>> THEN 0
  ELSE IF Head(line) = " " \/ Head(line) = "\t" THEN 1 + indentOfTabAsOne(Tail(line))
  ELSE 0

\* The indentation loop: spaces count 1, tabs 4, up to the first other rune.
RECURSIVE indentOf(_)
indentOf(line) ==
  IF line = <<>> THEN 0
  ELSE IF Head(line) = " " THEN 1 + indentOf(Tail(line))
  ELSE IF Head(line) = "\t" THEN TabWidth + indentOf(Tail(line))
  ELSE 0

\* A plausible slip: the depth marker without its leading extra space.
compactLineNoExtraSpace(compressed, line) ==
  LET indent == indentOf(line)
      trimmedLine == TrimSpace(line)
  IN IF trimmedLine = <<>> THEN compressed
     ELSE (IF Len(compressed) > 0 THEN compressed \o <<" ">> ELSE compressed)
          \o (IF indent > 0 THEN Repeat(" ", indent \div IndentUnit) ELSE <<>>)
          \o trimmedLine

\* A plausible slip: the depth marker written before the blank line is dropped.
compactLineMarkerBeforeTrim(compressed, line) ==
  LET indent == indentOf(line)
      trimmedLine == TrimSpace(line)
      marker == IF indent > 0 THEN Repeat(" ", 1 + (indent \div IndentUnit)) ELSE <<>>
  IN IF trimmedLine = <<>> THEN compressed \o marker
     ELSE (IF Len(compressed) > 0 THEN compressed \o <<" ">> ELSE compressed)
          \o marker \o trimmedLine

\* One round of the loop over the lines: the buffer after the line is handled.
compactLine(compressed, line) ==
  LET indent == indentOf(line)
      trimmedLine == TrimSpace(line)
  IN IF trimmedLine = <<>> THEN compressed
     ELSE (IF Len(compressed) > 0 THEN compressed \o <<" ">> ELSE compressed)
          \o (IF indent > 0 THEN Repeat(" ", 1 + (indent \div IndentUnit)) ELSE <<>>)
          \o trimmedLine

\* Line endings normalised, then split into lines.
splitLines(content) == Split(ReplaceCR(ReplaceCRLF(content)), "\n")

RECURSIVE compactLines(_, _)
compactLines(lines, compressed) ==
  IF lines = <<>> THEN compressed
  ELSE compactLines(Tail(lines), compactLine(compressed, Head(lines)))

\* The whole compact branch: what is written for a file's content.
compact(content) == compactLines(splitLines(content), <<>>)

(***************************************************************************)
(* The state of a run                                                      *)
(***************************************************************************)

VARIABLES
  directory,            \* the scan root as spelled on the command line
  outName,              \* -o
  includeExts,          \* -f, split at commas
  excludeExts,          \* -fe, split at commas
  excludedPaths,        \* -e, split at commas and trimmed
  pattern,              \* -p
  noCompactFlag,        \* -nocompact
  checkFormatFlag,      \* -checkformat
  fs,                   \* the scanned directory: its entries, by path relative to it
  pc,                   \* where main is
  todo,                 \* the entries the running filepath.Walk has still to deliver
  patternMatchedFiles,  \* the match set of the first pass of buildDirTree
  nodes,                \* the DirNode objects, by the walk path they were made for
  nodesMap,             \* the keys of nodesMap; the node of key k is nodes[k]
  err,                  \* the error buildDirTree or a walk returned
  outFile,              \* the writes made to the output file, in order
  fileCount,            \* the files the emission walk processed
  stats,                \* the map getFormatStats fills
  visited,              \* history: the <<walk, relative path>> pairs a callback ran for
  previous,             \* the artifacts of the runs before this one, oldest first
  call,                 \* the arguments of a function run on its own
  lines,                \* the lines the compactor has still to handle
  compressed,           \* the compactor's buffer
  ret                   \* the value the function run on its own returned

runVars == <<directory, outName, includeExts, excludeExts, excludedPaths, pattern,
             noCompactFlag, checkFormatFlag, fs, pc, todo, patternMatchedFiles,
             nodes, nodesMap, err, outFile, fileCount, stats, visited, previous>>
fnVars == <<call, lines, compressed, ret>>
vars == <<runVars, fnVars>>

\* buildDirTree is always called with isTextOnly = true.
isTextOnly == TRUE

\* The error values: nil, and the error of the second walk, which names the
\* path it was raised for.
NoError == [msg |-> "nil"]
ParentNotFound(path) == [msg |-> "parent node not found", path |-> path]
ReadDirError(path) == [msg |-> "open: permission denied", path |-> path]

(***************************************************************************)
(* The file system                                                         *)
(***************************************************************************)

RootRel == <<".">>

\* The entry of the scanned directory at a relative path.
Info(rel) == CHOOSE e \in fs : e.rel = rel

\* A plausible slip: the names of a directory delivered in descending order.
RECURSIVE SortNamesDescending(_)
SortNamesDescending(S) ==
  IF S = {} THEN <<>>
  ELSE LET m == CHOOSE x \in S : \A y \in S \ {x} : StrLess(Base(y), Base(x))
       IN <<m>> \o SortNamesDescending(S \ {m})

\* ioutil.ReadDir names of a directory, as filepath.Walk sorts them.
RECURSIVE SortNames(_)
SortNames(S) ==
  IF S = {} THEN <<>>
  ELSE LET m == CHOOSE x \in S : \A y \in S \ {x} : StrLess(Base(x), Base(y))
       IN <<m>> \o SortNames(S \ {m})

ChildRels(rel) == {e.rel : e \in {f \in fs : f.rel # RootRel /\ Dir(f.rel) = rel}}

\* What filepath.Walk delivers after a directory: its entries in name order,
\* each at filepath.Join(path of the directory, name).
WalkChildren(d) ==
  LET names == SortNames(ChildRels(d.rel))
  IN [i \in 1..Len(names) |-> [path |-> Join(d.path, Base(names[i])), rel |-> names[i]]]

\* A plausible slip: the callback dropping the error the walk hands it.
walkErrIgnored(e) == NoError

\* The err argument filepath.Walk hands to the callback with an entry: the
\* walk reads a directory before it calls the callback for it, and passes on
\* the error of a directory it cannot read.
walkErr(e) ==
  IF Info(e.rel).isDir /\ ~Info(e.rel).readable THEN ReadDirError(e.path) ELSE NoError

\* filepath.Walk(root, fn) starts by delivering the root as it is spelled.
WalkStart(root) == <<[path |-> root, rel |-> RootRel]>>

\* The walk after the callback returned for the head entry: nil on a directory
\* descends into it, SkipDir on a directory passes over it, an error ends the
\* walk.
WalkAfter(result) ==
  LET e == Head(todo) IN
  IF result = "error" THEN <<>>
  ELSE IF result = "nil" /\ Info(e.rel).isDir /\ Info(e.rel).readable
       THEN WalkChildren(e) \o Tail(todo)
  ELSE Tail(todo)

\* A plausible slip: the output name compared as it is spelled.
outAbsAsSpelled == outName

\* filepath.Abs(*outName).
outAbs == Abs(outName)

(***************************************************************************)
(* buildDirTree                                                            *)
(***************************************************************************)

NewNode(path, isDir) == [Name |-> Base(path), IsDir |-> isDir, Children |-> <<>>]

\* The callback of the first walk: "nil" or "skipdir", and whether the file
\* is put in the match set.
ScanVerdict(e) ==
  LET info == Info(e.rel)
      relPath == Rel(directory, e.path)
  IN IF walkErr(e).msg # "nil" THEN [result |-> "error", matched |-> FALSE]
     ELSE IF info.isDir
     THEN [result |-> IF isExcludedPath(relPath, excludedPaths) THEN "skipdir" ELSE "nil",
           matched |-> FALSE]
     ELSE [result |-> "nil",
           matched |->
             /\ Abs(e.path) # outAbs
             /\ ~isExcludedPath(relPath, excludedPaths)
             /\ extFilterTree(e.path, includeExts, excludeExts)
             /\ ~(isTextOnly /\ ~isTextFile(info.readable, info.content))
             /\ fileContainsPattern(info.readable, info.content, pattern)]

\* A plausible slip: the comparator without the directories-first test.
childLessByNameOnly(ns, a, b) == StrLess(ns[a].Name, ns[b].Name)

\* The comparator of the final sort: directories first, then by name.
childLess(ns, a, b) ==
  IF ns[a].IsDir # ns[b].IsDir THEN ns[a].IsDir
  ELSE StrLess(ns[a].Name, ns[b].Name)

\* sort.Slice of a children list under the comparator.
RECURSIVE InsertSorted(_, _, _)
InsertSorted(ns, sorted, x) ==
  IF sorted = <<>> THEN <<x>>
  ELSE IF childLess(ns, x, Head(sorted)) THEN <<x>> \o sorted
  ELSE <<Head(sorted)>> \o InsertSorted(ns, Tail(sorted), x)

RECURSIVE SortChildren(_, _)
SortChildren(ns, children) ==
  IF children = <<>> THEN <<>>
  ELSE InsertSorted(ns, SortChildren(ns, Tail(children)), Head(children))

\* The loop after the second walk: the children of every node of nodesMap are
\* sorted.
SortAll(ns, keys) ==
  [k \in DOMAIN ns |->
     IF k \in keys THEN [ns[k] EXCEPT !.Children = SortChildren(ns, ns[k].Children)]
     ELSE ns[k]]

\* The second walk passes over the root before any rule is consulted.
AssembleSkipsRoot(path) == path = directory

\* A plausible slip: a matched directory is passed over but still descended into.
excludedResultDescends(isDir) == "nil"

\* What the callbacks return for an entry the rules exclude.
excludedResult(isDir) == IF isDir THEN "skipdir" ELSE "nil"

\* A plausible slip: the pattern test of the second walk applied to
\* directories too.
AssembleVerdictPatternOnDirectories(e) ==
  LET info == Info(e.rel)
      relPath == Rel(directory, e.path)
      isFile == ~info.isDir
  IN IF walkErr(e).msg # "nil" THEN [result |-> "error", add |-> FALSE]
     ELSE IF Abs(e.path) = outAbs THEN [result |-> "nil", add |-> FALSE]
     ELSE IF AssembleSkipsRoot(e.path) THEN [result |-> "nil", add |-> FALSE]
     ELSE IF isExcludedPath(relPath, excludedPaths)
          THEN [result |-> excludedResult(info.isDir), add |-> FALSE]
     ELSE IF pattern # <<>> /\ e.path \notin patternMatchedFiles
          THEN [result |-> "nil", add |-> FALSE]
     ELSE IF isFile /\ ~extFilterTree(e.path, includeExts, excludeExts)
          THEN [result |-> "nil", add |-> FALSE]
     ELSE IF isFile /\ isTextOnly /\ ~isTextFile(info.readable, info.content)
          THEN [result |-> "nil", add |-> FALSE]
     ELSE IF Dir(e.path) \notin nodesMap THEN [result |-> "error", add |-> FALSE]
     ELSE [result |-> "nil", add |-> TRUE]

\* The callback of the second walk: "nil", "skipdir" or "error", and whether a
\* node is added for the entry.
AssembleVerdict(e) ==
  LET info == Info(e.rel)
      relPath == Rel(directory, e.path)
      isFile == ~info.isDir
  IN IF walkErr(e).msg # "nil" THEN [result |-> "error", add |-> FALSE]
     ELSE IF Abs(e.path) = outAbs THEN [result |-> "nil", add |-> FALSE]
     ELSE IF AssembleSkipsRoot(e.path) THEN [result |-> "nil", add |-> FALSE]
     ELSE IF isExcludedPath(relPath, excludedPaths)
          THEN [result |-> excludedResult(info.isDir), add |-> FALSE]
     ELSE IF isFile /\ pattern # <<>> /\ e.path \notin patternMatchedFiles
          THEN [result |-> "nil", add |-> FALSE]
     ELSE IF isFile /\ ~extFilterTree(e.path, includeExts, excludeExts)
          THEN [result |-> "nil", add |-> FALSE]
     ELSE IF isFile /\ isTextOnly /\ ~isTextFile(info.readable, info.content)
          THEN [result |-> "nil", add |-> FALSE]
     ELSE IF Dir(e.path) \notin nodesMap THEN [result |-> "error", add |-> FALSE]
     ELSE [result |-> "nil", add |-> TRUE]

(***************************************************************************)
(* printTreeToString                                                       *)
(***************************************************************************)

BannerLine == <<"D", "i", "r", "e", "c", "t", "o", "r", "y", " ", "S", "t", "r", "u", "c", "t", "u", "r", "e", ":", "\n">>
LastConnector == <<BoxUpRight, BoxHoriz, BoxHoriz, " ">>
MidConnector == <<BoxVertRight, BoxHoriz, BoxHoriz, " ">>
BlankColumn == <<" ", " ", " ", " ">>
BarColumn == <<BoxVert, " ", " ", " ">>

\* A plausible slip: every node drawn with the mid connector.
connectorAlwaysMid(isLast) == MidConnector

connector(isLast) == IF isLast THEN LastConnector ELSE MidConnector

\* A plausible slip: the banner written for every root, whatever its name.
isBannerNodeAlways(name) == TRUE

\* The node printed as the banner: the one named "." or "".
isBannerNode(name) == name = <<".">> \/ name = <<>>

RECURSIVE printTreeToString(_, _, _, _)
printTreeToString(ns, id, prefix, isLast) ==
  LET node == ns[id]
      banner == isBannerNode(node.Name)
      own == IF banner THEN BannerLine
             ELSE prefix \o connector(isLast) \o node.Name
                  \o (IF node.IsDir THEN <<"/">> ELSE <<>>) \o <<"\n">>
      below == IF banner THEN prefix
               ELSE prefix \o (IF isLast THEN BlankColumn ELSE BarColumn)
      n == Len(node.Children)
      kids == [i \in 1..n |-> printTreeToString(ns, node.Children[i], below, i = n)]
  IN own \o JoinWith(kids, <<>>)

(***************************************************************************)
(* main: the inputs of a run                                               *)
(***************************************************************************)

Dot == <<".">>
Src == <<"s", "r", "c">>
DotSlashSrc == <<".", "/", "s", "r", "c">>
SrcSlash == <<"s", "r", "c", "/">>
OutTxt == <<"o", "u", "t", ".", "t", "x", "t">>
SrcOutTxt == <<"s", "r", "c", "/", "o", "u", "t", ".", "t", "x", "t">>

Sub == <<"s", "u", "b">>
SubAPy == <<"s", "u", "b", "/", "a", ".", "p", "y">>
APy == <<"a", ".", "p", "y">>
BPY == <<"b", ".", "P", "Y">>
XBin == <<"x">>
Git == <<".", "g", "i", "t">>
GitC == <<".", "g", "i", "t", "/", "c">>

Todo == <<"T", "O", "D", "O">>
TodoIndented == <<"T", "O", "D", "O", "\n", "\t", "x">>
PlainText == <<"x", "\n">>
BinaryBytes == <<"a", NUL>>

ExtPy == <<"p", "y">>
StarPy == <<"*", ".", "p", "y">>
Question == <<"?">>
SuStar == <<"s", "u", "*">>

LPy == <<"l", ".", "p", "y">>
AGo == <<"a", ".", "g", "o">>
BGo == <<"b", ".", "g", "o">>
CGo == <<"c", ".", "g", "o">>
YNote == <<"y">>

DirEntry(rel) == [rel |-> rel, isDir |-> TRUE, readable |-> TRUE, content |-> <<>>]
FileEntry(rel, content) == [rel |-> rel, isDir |-> FALSE, readable |-> TRUE, content |-> content]

\* A file that os.Open or the read refuses (no read permission).
LockedEntry(rel) == [rel |-> rel, isDir |-> FALSE, readable |-> FALSE, content |-> <<>>]

\* A directory that cannot be listed (no read permission).
LockedDir(rel) == [rel |-> rel, isDir |-> TRUE, readable |-> FALSE, content |-> <<>>]

PDir == <<"p">>

\* The entries a scanned directory may hold.
Candidates ==
  { DirEntry(Sub), FileEntry(SubAPy, TodoIndented), FileEntry(APy, PlainText),
    FileEntry(BPY, Todo), FileEntry(XBin, BinaryBytes),
    DirEntry(Git), FileEntry(GitC, PlainText), LockedEntry(LPy), LockedDir(PDir) }

\* A directory with three .go files and two files without extension.
GoDirectory ==
  { FileEntry(AGo, PlainText), FileEntry(BGo, Todo), FileEntry(CGo, PlainText),
    FileEntry(XBin, BinaryBytes), FileEntry(YNote, PlainText) }

ParentClosed(T) ==
  \A e \in T : Dir(e.rel) = RootRel \/ \E d \in T : d.isDir /\ d.rel = Dir(e.rel)

\* The scanned directories: up to MaxEntries entries, every one with its parent.
Trees ==
  {T \in SUBSET Candidates : Cardinality(T) <= MaxEntries /\ ParentClosed(T)}
  \cup {GoDirectory}

\* The scan root and the output file name, as spelled on the command line.
Invocations ==
  { <<Dot, OutTxt>>, <<Src, SrcOutTxt>>, <<DotSlashSrc, OutTxt>>, <<SrcSlash, SrcOutTxt>> }

\* The command lines apart from the filters: a combine run of each invocation
\* (compacting), a combine run with -nocompact, and -checkformat runs.
CommandLines ==
  {[directory |-> i[1], outName |-> i[2], noCompactFlag |-> FALSE, checkFormatFlag |-> FALSE] :
     i \in Invocations}
  \cup {[directory |-> Dot, outName |-> OutTxt, noCompactFlag |-> TRUE, checkFormatFlag |-> FALSE]}
  \cup {[directory |-> d, outName |-> OutTxt, noCompactFlag |-> FALSE, checkFormatFlag |-> TRUE] :
          d \in {Dot, Src}}

\* The default of the -e flag.
DefaultExcludePaths == Git

\* The values the -e flag may hold after parsing: the default when the option
\* is not given, else the text the user gave in place of it.
ExcludePathsValues ==
  { DefaultExcludePaths, <<>>, SuStar, Dot, StarPy, Question \o <<",", " ">> \o Git }

\* The rule list main makes of the flag: nothing for the empty text, else the
\* text split at commas, each piece trimmed.
splitExcludePaths(value) ==
  IF value = <<>> THEN <<>>
  ELSE LET pieces == Split(value, ",") IN [i \in 1..Len(pieces) |-> TrimSpace(pieces[i])]

RuleLists == {splitExcludePaths(v) : v \in ExcludePathsValues}

\* os.Create(*outName) has run: the output file exists, empty, and is an
\* entry of the scanned directory when it lies in it.
OutEntry(root, out) ==
  LET r == Abs(root)
      o == Abs(out)
  IN IF HasPrefix(o, r \o <<"/">>)
     THEN {FileEntry(SubSeq(o, Len(r) + 2, Len(o)), <<>>)}
     ELSE {}

FnIdle ==
  /\ call = [fn |-> "none"]
  /\ lines = <<>>
  /\ compressed = <<>>
  /\ ret = <<>>

RunStart ==
  /\ pc = "start"
  /\ todo = <<>>
  /\ patternMatchedFiles = {}
  /\ nodes = <<>>
  /\ nodesMap = {}
  /\ err = NoError
  /\ outFile = <<>>
  /\ fileCount = 0
  /\ stats = <<>>
  /\ visited = {}
  /\ previous = <<>>

\* The state after the flags are parsed and, in a combine run, the output
\* file is created.
Init ==
  /\ \E c \in CommandLines :
       /\ directory = c.directory
       /\ outName = c.outName
       /\ noCompactFlag = c.noCompactFlag
       /\ checkFormatFlag = c.checkFormatFlag
  /\ includeExts \in {<<>>, <<ExtPy>>}
  /\ excludeExts \in {<<>>, <<ExtPy>>}
  /\ excludedPaths \in RuleLists
  /\ pattern \in {<<>>, Todo}
  /\ \E T \in Trees :
       fs = {DirEntry(RootRel)} \cup T
            \cup (IF checkFormatFlag THEN {} ELSE OutEntry(directory, outName))
  /\ RunStart
  /\ FnIdle

(***************************************************************************)
(* main: the combine run                                                   *)
(***************************************************************************)

\* buildDirTree up to its first walk: the root node is made and registered
\* under the root path as spelled.
BuildDirTreeBegin ==
  /\ pc = "start"
  /\ ~checkFormatFlag
  /\ nodes' = (directory :> NewNode(directory, TRUE))
  /\ nodesMap' = {directory}
  /\ todo' = WalkStart(directory)
  /\ pc' = IF pattern # <<>> THEN "scan" ELSE "assemble"
  /\ UNCHANGED <<directory, outName, includeExts, excludeExts, excludedPaths, pattern,
                 noCompactFlag, checkFormatFlag, fs, patternMatchedFiles, err, outFile,
                 fileCount, stats, visited, previous, fnVars>>

\* The first walk's callback on the next entry; after the last entry the
\* second walk starts.  An error ends the walk, buildDirTree returns it at
\* once and main exits.
ScanStep ==
  /\ pc = "scan"
  /\ todo # <<>>
  /\ LET e == Head(todo)
         v == ScanVerdict(e)
         rest == WalkAfter(v.result)
     IN /\ patternMatchedFiles' =
             IF v.matched THEN patternMatchedFiles \cup {e.path} ELSE patternMatchedFiles
        /\ visited' = visited \cup {<<"scan", e.rel>>}
        /\ IF v.result = "error"
           THEN /\ todo' = <<>>
                /\ err' = walkErr(e)
                /\ pc' = "exit1"
           ELSE IF rest = <<>>
           THEN /\ todo' = WalkStart(directory)
                /\ err' = err
                /\ pc' = "assemble"
           ELSE /\ todo' = rest
                /\ err' = err
                /\ pc' = "scan"
  /\ UNCHANGED <<directory, outName, includeExts, excludeExts, excludedPaths, pattern,
                 noCompactFlag, checkFormatFlag, fs, nodes, nodesMap, outFile,
                 fileCount, stats, previous, fnVars>>

\* The second walk's callback on the next entry.  When the walk ends, by an
\* error or after the last entry, buildDirTree sorts the children lists and
\* returns, and main exits on an error.
AssembleStep ==
  /\ pc = "assemble"
  /\ todo # <<>>
  /\ LET e == Head(todo)
         v == AssembleVerdict(e)
         rest == WalkAfter(v.result)
         parent == Dir(e.path)
         added == IF v.add
                  THEN [nodes EXCEPT ![parent].Children = Append(@, e.path)]
                       @@ (e.path :> NewNode(e.path, Info(e.rel).isDir))
                  ELSE nodes
         keys == IF v.add /\ Info(e.rel).isDir THEN nodesMap \cup {e.path} ELSE nodesMap
     IN /\ nodesMap' = keys
        /\ visited' = visited \cup {<<"assemble", e.rel>>}
        /\ todo' = rest
        /\ IF rest = <<>>
           THEN /\ nodes' = SortAll(added, keys)
                /\ err' = IF v.result # "error" THEN NoError
                          ELSE IF walkErr(e).msg # "nil" THEN walkErr(e)
                          ELSE ParentNotFound(e.path)
                /\ pc' = IF v.result = "error" THEN "exit1" ELSE "built"
           ELSE /\ nodes' = added
                /\ err' = err
                /\ pc' = "assemble"
  /\ UNCHANGED <<directory, outName, includeExts, excludeExts, excludedPaths, pattern,
                 noCompactFlag, checkFormatFlag, fs, patternMatchedFiles, outFile,
                 fileCount, stats, previous, fnVars>>

FiltersHead == <<"\n", "F", "i", "l", "t", "e", "r", "s", " ", "a", "p", "p", "l", "i", "e", "d", ":", "\n">>
IncludingOnly == <<"-", " ", "I", "n", "c", "l", "u", "d", "i", "n", "g", " ", "o", "n", "l", "y", ":", " ">>
ExcludingExts == <<"-", " ", "E", "x", "c", "l", "u", "d", "i", "n", "g", " ", "e", "x", "t", "e", "n", "s", "i", "o", "n", "s", ":", " ">>
ExcludingPaths == <<"-", " ", "E", "x", "c", "l", "u", "d", "i", "n", "g", " ", "p", "a", "t", "h", "s", ":", " ">>
OnlyContaining == <<"-", " ", "O", "n", "l", "y", " ", "f", "i", "l", "e", "s", " ", "c", "o", "n", "t", "a", "i", "n", "i", "n", "g", ":", " ", "\"">>
CommaSpace == <<",", " ">>

\* A plausible slip: the test of the -checkformat branch, which leaves the
\* pattern out, guarding the block.
FiltersBlockPatternNotTested ==
  IF Len(includeExts) > 0 \/ Len(excludeExts) > 0 \/ Len(excludedPaths) > 0
  THEN <<FiltersHead>>
       \o (IF Len(includeExts) > 0
           THEN <<IncludingOnly \o JoinWith(includeExts, CommaSpace) \o <<"\n">> >> ELSE <<>>)
       \o (IF Len(excludeExts) > 0
           THEN <<ExcludingExts \o JoinWith(excludeExts, CommaSpace) \o <<"\n">> >> ELSE <<>>)
       \o (IF Len(excludedPaths) > 0
           THEN <<ExcludingPaths \o JoinWith(excludedPaths, CommaSpace) \o <<"\n">> >> ELSE <<>>)
       \o (IF pattern # <<>>
           THEN <<OnlyContaining \o pattern \o <<"\"", "\n">> >> ELSE <<>>)
  ELSE <<>>

\* The writes of the "Filters applied:" block.
FiltersBlock ==
  IF Len(includeExts) > 0 \/ Len(excludeExts) > 0 \/ Len(excludedPaths) > 0 \/ pattern # <<>>
  THEN <<FiltersHead>>
       \o (IF Len(includeExts) > 0
           THEN <<IncludingOnly \o JoinWith(includeExts, CommaSpace) \o <<"\n">> >> ELSE <<>>)
       \o (IF Len(excludeExts) > 0
           THEN <<ExcludingExts \o JoinWith(excludeExts, CommaSpace) \o <<"\n">> >> ELSE <<>>)
       \o (IF Len(excludedPaths) > 0
           THEN <<ExcludingPaths \o JoinWith(excludedPaths, CommaSpace) \o <<"\n">> >> ELSE <<>>)
       \o (IF pattern # <<>>
           THEN <<OnlyContaining \o pattern \o <<"\"", "\n">> >> ELSE <<>>)
  ELSE <<>>

SeparatorLine == <<"\n">> \o Repeat("-", SeparatorWidth) \o <<"\n", "\n">>

\* The tree as main renders it: from the root, with an empty prefix and
\* isLast = false.
treeStr == printTreeToString(nodes, directory, <<>>, FALSE)

\* main after buildDirTree returned without error: the tree, the filters block
\* and the separator are written, and the emission walk starts.
WritePreamble ==
  /\ pc = "built"
  /\ outFile' = outFile \o <<treeStr>> \o FiltersBlock \o <<SeparatorLine>>
  /\ todo' = WalkStart(directory)
  /\ pc' = "emit"
  /\ UNCHANGED <<directory, outName, includeExts, excludeExts, excludedPaths, pattern,
                 noCompactFlag, checkFormatFlag, fs, patternMatchedFiles, nodes, nodesMap,
                 err, fileCount, stats, visited, previous, fnVars>>

\* The header line of a file.
Header(relPath) == <<"=", "=", " ">> \o relPath \o <<" ", "=", "=", "\n">>
FileGap == <<"\n", "\n">>

\* The callback of the emission walk: "nil" or "skipdir", and whether the
\* file is written.
EmitVerdict(e) ==
  LET info == Info(e.rel)
      relPath == Rel(directory, e.path)
  IN IF walkErr(e).msg # "nil" THEN [result |-> "error", emit |-> FALSE]
     ELSE IF info.isDir
     THEN [result |-> IF isExcludedPath(relPath, excludedPaths)
                      THEN excludedResult(TRUE) ELSE "nil",
           emit |-> FALSE]
     ELSE [result |-> "nil",
           emit |->
             /\ Abs(e.path) # outAbs
             /\ ~isExcludedPath(relPath, excludedPaths)
             /\ extFilterEmit(e.path, includeExts, excludeExts)
             /\ isTextFile(info.readable, info.content)
             /\ ~(pattern # <<>> /\ ~fileContainsPattern(info.readable, info.content, pattern))]

\* The emission walk's callback on the next entry: for a surviving file the
\* header, the content (compacted unless -nocompact) and the gap are written.
EmitStep ==
  /\ pc = "emit"
  /\ todo # <<>>
  /\ LET e == Head(todo)
         v == EmitVerdict(e)
         rest == WalkAfter(v.result)
         content == Info(e.rel).content
         body == IF ~noCompactFlag THEN compact(content) ELSE content
     IN /\ outFile' = IF v.emit
                      THEN outFile \o <<Header(Rel(directory, e.path)), body, FileGap>>
                      ELSE outFile
        /\ fileCount' = IF v.emit THEN fileCount + 1 ELSE fileCount
        /\ visited' = visited \cup {<<"emit", e.rel>>}
        /\ todo' = rest
        /\ err' = IF v.result = "error" THEN walkErr(e) ELSE err
        /\ pc' = IF v.result = "error" THEN "exit1"
                 ELSE IF rest = <<>> THEN "done" ELSE "emit"
  /\ UNCHANGED <<directory, outName, includeExts, excludeExts, excludedPaths, pattern,
                 noCompactFlag, checkFormatFlag, fs, patternMatchedFiles, nodes, nodesMap,
                 stats, previous, fnVars>>

(***************************************************************************)
(* main -checkformat: getFormatStats                                       *)
(***************************************************************************)

\* A plausible slip: files without extension counted under the empty label.
NoExtensionLeftEmpty == <<>>

NoExtension == <<"n", "o", "-", "e", "x", "t", "e", "n", "s", "i", "o", "n">>

StatsBegin ==
  /\ pc = "start"
  /\ checkFormatFlag
  /\ todo' = WalkStart(directory)
  /\ pc' = "stats"
  /\ UNCHANGED <<directory, outName, includeExts, excludeExts, excludedPaths, pattern,
                 noCompactFlag, checkFormatFlag, fs, patternMatchedFiles, nodes, nodesMap,
                 err, outFile, fileCount, stats, visited, previous, fnVars>>

\* The callback of getFormatStats: "nil" or "skipdir", and the label counted.
StatsVerdict(e) ==
  LET info == Info(e.rel)
      relPath == Rel(directory, e.path)
      ext == ToLower(TrimDot(Ext(e.path)))
  IN IF walkErr(e).msg # "nil" THEN [result |-> "error", count |-> FALSE, label |-> <<>>]
     ELSE IF info.isDir
     THEN [result |-> IF isExcludedPath(relPath, excludedPaths)
                      THEN excludedResult(TRUE) ELSE "nil",
           count |-> FALSE, label |-> <<>>]
     ELSE [result |-> "nil",
           count |->
             /\ ~isExcludedPath(relPath, excludedPaths)
             /\ ~(Len(includeExts) > 0 /\ ~containsExt(includeExts, ext))
             /\ ~(Len(excludeExts) > 0 /\ containsExt(excludeExts, ext))
             /\ ~(pattern # <<>> /\ ~fileContainsPattern(info.readable, info.content, pattern)),
           label |-> IF ext = <<>> THEN NoExtension ELSE ext]

StatsStep ==
  /\ pc = "stats"
  /\ todo # <<>>
  /\ LET e == Head(todo)
         v == StatsVerdict(e)
         rest == WalkAfter(v.result)
     IN /\ stats' = IF ~v.count THEN stats
                    ELSE IF v.label \in DOMAIN stats
                         THEN [stats EXCEPT ![v.label] = @ + 1]
                         ELSE stats @@ (v.label :> 1)
        /\ visited' = visited \cup {<<"stats", e.rel>>}
        /\ todo' = rest
        /\ err' = IF v.result = "error" THEN walkErr(e) ELSE err
        /\ pc' = IF v.result = "error" THEN "exit1"
                 ELSE IF rest = <<>> THEN "statsdone" ELSE "stats"
  /\ UNCHANGED <<directory, outName, includeExts, excludeExts, excludedPaths, pattern,
                 noCompactFlag, checkFormatFlag, fs, patternMatchedFiles, nodes, nodesMap,
                 outFile, fileCount, previous, fnVars>>

Next ==
  \/ BuildDirTreeBegin
  \/ ScanStep
  \/ AssembleStep
  \/ WritePreamble
  \/ EmitStep
  \/ StatsBegin
  \/ StatsStep

Spec == Init /\ [][Next]_vars

(***************************************************************************)
(* The same command run again                                              *)
(***************************************************************************)

\* A plausible slip: the output file opened without truncation.
CreateKeepingContent(content) == content

\* os.Create: the file is created or truncated.
Create(content) == <<>>

\* The user runs the same command line again on the unchanged directory, in
\* which the output file of the first run now lies: main starts over, and
\* os.Create truncates the output file before any walk.
RunAgain ==
  /\ pc \in {"done", "exit1"}
  /\ previous = <<>>
  /\ previous' = Append(previous, outFile)
  /\ outFile' = Create(outFile)
  /\ pc' = "start"
  /\ todo' = <<>>
  /\ patternMatchedFiles' = {}
  /\ nodes' = <<>>
  /\ nodesMap' = {}
  /\ err' = NoError
  /\ fileCount' = 0
  /\ visited' = {}
  /\ UNCHANGED <<directory, outName, includeExts, excludeExts, excludedPaths, pattern,
                 noCompactFlag, checkFormatFlag, fs, stats, fnVars>>

NextTwice == Next \/ RunAgain

SpecTwice == Init /\ [][NextTwice]_vars

(***************************************************************************)
(* What a run produced                                                     *)
(***************************************************************************)

\* The relative paths of the file nodes of the tree below a node, read off the
\* nodes' names.
RECURSIVE TreeFilesBelow(_, _, _)
TreeFilesBelow(ns, id, prefix) ==
  UNION { LET c == ns[id].Children[i]
              p == IF prefix = <<>> THEN ns[c].Name ELSE prefix \o <<"/">> \o ns[c].Name
          IN IF ns[c].IsDir THEN TreeFilesBelow(ns, c, p) ELSE {p} :
          i \in 1..Len(ns[id].Children) }

TreeFiles == TreeFilesBelow(nodes, directory, <<>>)

\* The writes before the first header: the tree, the filters block, the separator.
PreambleLen == 1 + Len(FiltersBlock) + 1

\* The header writes of the emission walk: every third write after the preamble.
HeaderWrites ==
  {outFile[i] : i \in {j \in (PreambleLen + 1)..Len(outFile) : (j - PreambleLen) % 3 = 1}}

\* The relative paths named in the headers.
EmittedPaths == {SubSeq(w, 4, Len(w) - 4) : w \in HeaderWrites}

\* The directories above a relative path, below the root.
AncestorsBelowRoot(rel) == {SubSeq(rel, 1, i - 1) : i \in {j \in 1..Len(rel) : rel[j] = "/"}}

\* The files of the scanned directory.
Files == {e \in fs : ~e.isDir}

\* The output file, as an entry of the scanned directory.
IsOutputFile(e) == Abs(directory \o <<"/">> \o e.rel) = Abs(outName)

LowerSet(exts) == {ToLower(exts[i]) : i \in 1..Len(exts)}

\* The extension filter as the specification states it.
ExtAccepted(name, incl, excl) ==
  LET ext == ToLower(TrimDot(Ext(name))) IN
  /\ (incl = <<>> \/ ext \in LowerSet(incl))
  /\ ext \notin LowerSet(excl)

\* The four conditions of inclusion.
Survives(e) ==
  /\ ~isExcludedPath(e.rel, excludedPaths)
  /\ \A a \in AncestorsBelowRoot(e.rel) : ~isExcludedPath(a, excludedPaths)
  /\ ExtAccepted(e.rel, includeExts, excludeExts)
  /\ isTextFile(e.readable, e.content)
  /\ (pattern # <<>> => Contains(e.content, pattern))

RootMatched == isExcludedPath(RootRel, excludedPaths)

(***************************************************************************)
(* Claims                                                                  *)
(***************************************************************************)

\* C1: when a combine run completes, the files that are nodes of the tree
\* buildDirTree returned are exactly the files the emission walk wrote a
\* header for.
C1_TreeEqualsEmission ==
  pc = "done" => TreeFiles = EmittedPaths

\* C2: when a combine run completes, a file of the scanned directory has a
\* header if and only if no rule excludes it or a directory above it below
\* the root, its extension passes the filter, it is text and it holds the
\* pattern when one is set; the output file is the only other file left out.
C2_EmittedIffSurvives ==
  pc = "done" =>
    \A e \in Files : (e.rel \in EmittedPaths) <=> (Survives(e) /\ ~IsOutputFile(e))

\* The directories above a relative path, the root among them.
AncestorsWithRoot(rel) ==
  IF rel = RootRel THEN {} ELSE AncestorsBelowRoot(rel) \cup {RootRel}

\* C6 as stated: in every walk, below a directory that a rule matches,
\* whichever directory that is, no entry is put in the match set, added to
\* the tree or emitted.
C6_NothingBelowMatchedDirectory ==
  /\ \A p \in patternMatchedFiles :
       \A a \in AncestorsWithRoot(Rel(directory, p)) : ~isExcludedPath(a, excludedPaths)
  /\ pc \in {"built", "emit", "done"} =>
       \A p \in TreeFiles : \A a \in AncestorsWithRoot(p) : ~isExcludedPath(a, excludedPaths)
  /\ \A p \in EmittedPaths : \A a \in AncestorsWithRoot(p) : ~isExcludedPath(a, excludedPaths)

\* C6, amended: in every walk (pattern scan, tree assembly, emission, format
\* statistics), no entry is visited below a directory under the scan root
\* that a rule matches; none is put in the match set, added to the tree,
\* counted or emitted.
C6_NoVisitBelowMatchedSubdirectory ==
  /\ \A v \in visited : \A a \in AncestorsBelowRoot(v[2]) : ~isExcludedPath(a, excludedPaths)
  /\ \A p \in patternMatchedFiles :
       \A a \in AncestorsBelowRoot(Rel(directory, p)) : ~isExcludedPath(a, excludedPaths)
  /\ pc \in {"built", "emit", "done"} =>
       \A p \in TreeFiles : \A a \in AncestorsBelowRoot(p) : ~isExcludedPath(a, excludedPaths)
  /\ \A p \in EmittedPaths : \A a \in AncestorsBelowRoot(p) : ~isExcludedPath(a, excludedPaths)

\* A matched directory under the root that holds an entry no rule matches.
PrunedDirectories ==
  {d \in fs : /\ d.isDir
              /\ d.rel # RootRel
              /\ isExcludedPath(d.rel, excludedPaths)
              /\ \E f \in fs : Dir(f.rel) = d.rel /\ ~isExcludedPath(f.rel, excludedPaths)}

\* A combine run with a pattern completed, in which all three walks reached
\* such a directory.
C6_Witness ==
  /\ pc = "done"
  /\ \E d \in PrunedDirectories :
       {<<"scan", d.rel>>, <<"assemble", d.rel>>, <<"emit", d.rel>>} \subseteq visited

\* The lines of a rendered text, each without its line feed.
RenderedLines(text) ==
  LET parts == Split(text, "\n") IN SubSeq(parts, 1, Len(parts) - 1)

BannerText == SubSeq(BannerLine, 1, Len(BannerLine) - 1)

Rendered == RenderedLines(outFile[1])

\* C8 as stated: whatever the scan root, the rendered tree starts with the
\* banner and holds one line for each node but the root.
C8_BannerForEveryRoot ==
  pc \in {"emit", "done"} =>
    /\ Rendered[1] = BannerText
    /\ Len(Rendered) = Cardinality(DOMAIN nodes)
    /\ \A i \in 2..Len(Rendered) : Rendered[i] # MidConnector \o Base(directory) \o <<"/">>

\* C8, amended: for a scan root whose base name is "." the rendered tree
\* starts with the banner and the root is no named entry; for any other scan
\* root no banner is written and the first line is the root itself, printed
\* as a named entry with the mid connector.
C8_BannerOnlyForDotRoot ==
  pc \in {"emit", "done"} =>
    /\ Len(Rendered) = Cardinality(DOMAIN nodes)
    /\ IF Base(directory) = Dot
       THEN /\ Rendered[1] = BannerText
            /\ \A i \in 2..Len(Rendered) : Rendered[i] # MidConnector \o Dot \o <<"/">>
       ELSE /\ Rendered[1] = MidConnector \o Base(directory) \o <<"/">>
            /\ \A i \in 1..Len(Rendered) : Rendered[i] # BannerText

\* A tree of a root named "src", with an entry below it, was rendered.
C8_Witness ==
  /\ pc = "emit"
  /\ Base(directory) = Src
  /\ Len(nodes[directory].Children) > 0

\* The tree, seen from below: a node's parent and whether it ends its
\* sibling list.
HasParent(id) == \E p \in DOMAIN nodes : \E i \in 1..Len(nodes[p].Children) : nodes[p].Children[i] = id
ParentOf(id) == CHOOSE p \in DOMAIN nodes : \E i \in 1..Len(nodes[p].Children) : nodes[p].Children[i] = id
IsLastSibling(id) ==
  HasParent(id) /\ nodes[ParentOf(id)].Children[Len(nodes[ParentOf(id)].Children)] = id
IsNamed(id) == ~(id = directory /\ Base(directory) = Dot)

RECURSIVE NodesAbove(_)
NodesAbove(id) == IF HasParent(id) THEN Append(NodesAbove(ParentOf(id)), ParentOf(id)) ELSE <<>>

ColumnUnder(id) ==
  IF ~IsNamed(id) THEN <<>> ELSE IF IsLastSibling(id) THEN BlankColumn ELSE BarColumn

ExpectedLine(id) ==
  IF ~IsNamed(id) THEN BannerText
  ELSE LET above == NodesAbove(id) IN
       JoinWith([i \in 1..Len(above) |-> ColumnUnder(above[i])], <<>>)
       \o (IF IsLastSibling(id) THEN LastConnector ELSE MidConnector)
       \o nodes[id].Name
       \o (IF nodes[id].IsDir THEN <<"/">> ELSE <<>>)

RECURSIVE Preorder(_)
Preorder(id) ==
  <<id>> \o JoinWith([i \in 1..Len(nodes[id].Children) |-> Preorder(nodes[id].Children[i])], <<>>)

\* A root "." holding the directory sub with one file, and one file.
ExampleTree ==
  /\ directory = Dot
  /\ DOMAIN nodes = {Dot, Sub, SubAPy, APy}
  /\ nodes[Dot].Children = <<Sub, APy>>
  /\ nodes[Sub].Children = <<SubAPy>>

ExampleRendering ==
  << BannerText,
     MidConnector \o Sub \o <<"/">>,
     BarColumn \o LastConnector \o APy,
     LastConnector \o APy >>

\* C9: in the rendered tree every node that ends its sibling list is drawn
\* with the last connector and every other node with the mid connector, after
\* one column for each named node above it: blank under a node that ends its
\* sibling list, a bar under any other; the lines come in depth-first order.
\* The root with one subdirectory (holding one file) and one file renders as
\* mid connector, bar column with last connector, last connector.
C9_ConnectorsFollowLastSibling ==
  pc \in {"emit", "done"} =>
    /\ Rendered = [i \in 1..Len(Preorder(directory)) |-> ExpectedLine(Preorder(directory)[i])]
    /\ ExampleTree => Rendered = ExampleRendering

C9_Witness == pc = "emit" /\ ExampleTree

\* A children list in the order of the claim: directories before files, names
\* ascending within each group.
Ordered(children) ==
  \A i, j \in 1..Len(children) :
    i < j =>
      LET a == nodes[children[i]]
          b == nodes[children[j]]
      IN /\ a.IsDir \/ ~b.IsDir
         /\ a.IsDir = b.IsDir => StrLess(a.Name, b.Name)

\* C10: in the tree buildDirTree returns, the children of every directory
\* node, the root included, are ordered directories first, then by name.
C10_ChildrenSorted ==
  pc \in {"built", "emit", "done", "exit1"} =>
    \A id \in DOMAIN nodes : nodes[id].IsDir => Ordered(nodes[id].Children)

\* A returned tree in which a directory stands before a file of a smaller
\* name, which the walk delivered first.
C10_Witness ==
  /\ pc = "built"
  /\ \E id \in DOMAIN nodes :
       \E i, j \in 1..Len(nodes[id].Children) :
         /\ i < j
         /\ nodes[nodes[id].Children[i]].IsDir
         /\ ~nodes[nodes[id].Children[j]].IsDir
         /\ StrLess(nodes[nodes[id].Children[j]].Name, nodes[nodes[id].Children[i]].Name)

\* The entries directly under the scan root.
TopLevel == {e \in fs : e.rel # RootRel /\ Dir(e.rel) = RootRel}

\* Where main is once a walk has run to its end.
WalkOver(w) ==
  CASE w = "scan" -> pattern # <<>> /\ pc \in {"assemble", "built", "emit", "done"}
    [] w = "assemble" -> pc \in {"built", "emit", "done"}
    [] w = "emit" -> pc = "done"

\* C11: whatever the rules, the scan root is descended into in the pattern
\* scan, in the tree assembly and in the emission walk: once a walk has run to
\* its end, its callback has run for every entry directly under the root.
C11_RootDescendedInEveryWalk ==
  \A w \in {"scan", "assemble", "emit"} :
    WalkOver(w) => \A e \in TopLevel : <<w, e.rel>> \in visited

\* The output file, when it lies in the scanned directory.
OutputFiles == {e \in Files : IsOutputFile(e)}

\* C12: the output file lying in the scanned directory is never a node of the
\* tree, never in the match set of the pattern scan, and never gets a header
\* in the emission walk, whatever the filters.
C12_OutputFileNeverProcessed ==
  \A o \in OutputFiles :
    /\ \A p \in patternMatchedFiles : Rel(directory, p) # o.rel
    /\ directory \in DOMAIN nodes => o.rel \notin TreeFiles
    /\ o.rel \notin EmittedPaths
    /\ \A i \in 1..Len(outFile) : outFile[i] # Header(o.rel)

\* A run without any filter completed: the emission walk came to the output
\* file, which is text and passes every filter, and wrote another file.
C12_Witness ==
  /\ pc = "done"
  /\ includeExts = <<>> /\ excludeExts = <<>> /\ excludedPaths = <<>> /\ pattern = <<>>
  /\ \E o \in OutputFiles :
       /\ <<"assemble", o.rel>> \in visited
       /\ <<"emit", o.rel>> \in visited
       /\ isTextFile(o.readable, o.content)
  /\ fileCount > 0

\* C13: when the same command line is run a second time on the unchanged
\* directory, the output file of the first run lying in it, the second run
\* ends with the same writes to the output file as the first, byte for byte.
C13_SecondRunSameArtifact ==
  (previous # <<>> /\ pc \in {"done", "exit1"}) => outFile = previous[1]

\* A second run completed that wrote files, walking a directory in which the
\* first run's output file lies.
C13_Witness ==
  /\ previous # <<>>
  /\ pc = "done"
  /\ fileCount > 0
  /\ Len(previous[1]) > PreambleLen
  /\ \E o \in OutputFiles : <<"emit", o.rel>> \in visited

\* The line of 80 dashes, with the blank lines around it.
DashLine == <<"\n">> \o [i \in 1..80 |-> "-"] \o <<"\n", "\n">>

\* The filter category a write of the block reports, by the text it begins with.
CategoryOf(w) ==
  CASE HasPrefix(w, IncludingOnly) -> "include extensions"
    [] HasPrefix(w, ExcludingExts) -> "exclude extensions"
    [] HasPrefix(w, ExcludingPaths) -> "exclude paths"
    [] HasPrefix(w, OnlyContaining) -> "pattern"
    [] OTHER -> "none"

\* The categories that are not empty, in the order of the block.
ActiveCategories ==
  SelectSeq(<<"include extensions", "exclude extensions", "exclude paths", "pattern">>,
            LAMBDA c : CASE c = "include extensions" -> includeExts # <<>>
                         [] c = "exclude extensions" -> excludeExts # <<>>
                         [] c = "exclude paths" -> excludedPaths # <<>>
                         [] c = "pattern" -> pattern # <<>>)

\* The place of the first write of the dash line.
DashAt == CHOOSE k \in 1..Len(outFile) : outFile[k] = DashLine /\ \A j \in 1..(k - 1) : outFile[j] # DashLine

\* C14: in every run that gets to write the output, the tree comes first; the
\* "Filters applied:" block follows if and only if a filter category is not
\* empty, holding one line for each category that is not empty and none for an
\* empty one, in the order include extensions, exclude extensions, exclude
\* paths, pattern; the line of 80 dashes follows, and every file header comes
\* after it.
C14_FiltersBlockAndSeparator ==
  pc \in {"emit", "done"} =>
    /\ \E k \in 2..Len(outFile) : outFile[k] = DashLine
    /\ LET block == SubSeq(outFile, 2, DashAt - 1) IN
       /\ outFile[1] = treeStr
       /\ (block # <<>>) <=> (ActiveCategories # <<>>)
       /\ block # <<>> =>
            /\ block[1] = FiltersHead
            /\ [i \in 1..(Len(block) - 1) |-> CategoryOf(block[i + 1])] = ActiveCategories
       /\ \A i \in 1..DashAt : \A e \in Files : outFile[i] # Header(e.rel)

\* A run wrote files after a block of two lines, for the include extensions
\* and the pattern, the other two categories being empty.
C14_Witness ==
  /\ pc = "done"
  /\ fileCount > 0
  /\ ActiveCategories = <<"include extensions", "pattern">>
  /\ outFile[5] = DashLine

\* The label a file is counted under: its extension, lowercased, without the
\* dot, or "no-extension".
LabelOf(e) ==
  LET x == ToLower(TrimDot(Ext(e.rel))) IN
  IF x = <<>> THEN <<"n", "o", "-", "e", "x", "t", "e", "n", "s", "i", "o", "n">> ELSE x

\* The files the statistics walk delivered that pass the path rules, the
\* extension lists and the pattern, and bear a label.
CountedUnder(label) ==
  {e \in Files : /\ <<"stats", e.rel>> \in visited
                 /\ ~isExcludedPath(e.rel, excludedPaths)
                 /\ ExtAccepted(e.rel, includeExts, excludeExts)
                 /\ (pattern # <<>> => e.readable /\ Contains(e.content, pattern))
                 /\ LabelOf(e) = label}

GoLabel == <<"g", "o">>

\* C15: the map getFormatStats returns holds, for every label, the number of
\* files of the walk that pass the path rules, the extension lists and the
\* pattern and bear that label, files without extension under "no-extension";
\* a label with no such file is not in the map.  The directory with three .go
\* files and two files without extension, no filter set, gives go: 3 and
\* no-extension: 2, and nothing else.
C15_StatsCountSurvivors ==
  pc = "statsdone" =>
    /\ \A l \in DOMAIN stats : stats[l] > 0 /\ stats[l] = Cardinality(CountedUnder(l))
    /\ \A e \in Files : CountedUnder(LabelOf(e)) # {} => LabelOf(e) \in DOMAIN stats
    /\ ( /\ Files = GoDirectory
         /\ includeExts = <<>> /\ excludeExts = <<>> /\ excludedPaths = <<>> /\ pattern = <<>> )
       => /\ DOMAIN stats = {GoLabel, LabelOf(FileEntry(XBin, BinaryBytes))}
          /\ stats[GoLabel] = 3
          /\ stats[LabelOf(FileEntry(XBin, BinaryBytes))] = 2

\* The walk of the example directory, no filter set, has ended.
C15_Witness ==
  /\ pc = "statsdone"
  /\ Files = GoDirectory
  /\ includeExts = <<>> /\ excludeExts = <<>> /\ excludedPaths = <<>> /\ pattern = <<>>
  /\ Cardinality(DOMAIN stats) = 2

\* The .git directory and what lies in it.
UnderGit(rel) == rel = Git \/ HasPrefix(rel, Git \o <<"/">>)

\* C16: whatever rules the -e option names, the .git directory stays excluded:
\* in a combine run with a rule list that is not empty, neither .git nor an
\* entry in it is a node of the tree or gets a header.
C16_GitExcludedWhateverRules ==
  (pc \in {"built", "emit", "done"} /\ excludedPaths # <<>>) =>
    /\ \A k \in DOMAIN nodes \ {directory} : ~UnderGit(Rel(directory, k))
    /\ \A p \in EmittedPaths : ~UnderGit(p)

\* The files that cannot be opened or read.
LockedFiles == {e \in Files : ~e.readable}

\* C17: a file that cannot be opened or read never aborts a combine run and
\* is treated as excluded in every walk: it is never in the match set, never
\* a node of the tree, never emitted, and never the entry an error is raised
\* for; the walk that met it goes on to the entries beside it, and a run
\* whose emission walk met it emits every other surviving file.
C17_UnreadableFileIsSkipped ==
  /\ \A f \in LockedFiles :
       /\ \A p \in patternMatchedFiles : Rel(directory, p) # f.rel
       /\ directory \in DOMAIN nodes => f.rel \notin TreeFiles
       /\ f.rel \notin EmittedPaths
       /\ pc = "exit1" => Rel(directory, err.path) # f.rel
       /\ \A w \in {"scan", "assemble", "emit"} :
            (WalkOver(w) /\ <<w, f.rel>> \in visited) =>
              \A g \in fs : (g.rel # RootRel /\ Dir(g.rel) = Dir(f.rel)) => <<w, g.rel>> \in visited
  /\ (pc = "done" /\ \E f \in LockedFiles : <<"emit", f.rel>> \in visited) =>
       \A e \in Files : (Survives(e) /\ ~IsOutputFile(e)) => e.rel \in EmittedPaths

\* A run with a pattern completed: all three walks met a file that cannot be
\* read, and the emission walk wrote a file that comes after it.
C17_Witness ==
  /\ pc = "done"
  /\ pattern # <<>>
  /\ \E f \in LockedFiles :
       /\ {<<"scan", f.rel>>, <<"assemble", f.rel>>, <<"emit", f.rel>>} \subseteq visited
       /\ \E p \in EmittedPaths : StrLess(f.rel, p)

\* The directories of the scanned directory below its root.
DirsBelowRoot == {d \in fs : d.isDir /\ d.rel # RootRel}

\* Neither the entry nor a directory above it, below the root, is matched by
\* a rule.
NotExcluded(rel) ==
  /\ ~isExcludedPath(rel, excludedPaths)
  /\ \A a \in AncestorsBelowRoot(rel) : ~isExcludedPath(a, excludedPaths)

\* The places in the tree where a directory node stands for a relative path:
\* the parent node, found by the names from the root down, and the index in
\* its children list.
RECURSIVE DirOccurrences(_)
DirOccurrences(rel) ==
  LET parents == IF Dir(rel) = RootRel THEN {directory}
                 ELSE {nodes[o[1]].Children[o[2]] : o \in DirOccurrences(Dir(rel))}
  IN UNION { {<<p, i>> : i \in {j \in 1..Len(nodes[p].Children) :
                                  /\ nodes[nodes[p].Children[j]].IsDir
                                  /\ nodes[nodes[p].Children[j]].Name = Base(rel)}} :
             p \in parents }

\* C20: in the tree buildDirTree returns, every directory below the root
\* that no rule excludes, itself or through a directory above it, is a
\* directory node exactly once under its parent's node, whatever the
\* extension lists and the pattern and also when no file in it is kept; an
\* excluded directory and the entries in it are no nodes.
C20_KeptDirectoriesAreNodes ==
  pc \in {"built", "emit", "done"} =>
    /\ \A d \in DirsBelowRoot :
         IF NotExcluded(d.rel) THEN Cardinality(DirOccurrences(d.rel)) = 1
         ELSE DirOccurrences(d.rel) = {}
    /\ \A e \in Files : ~NotExcluded(e.rel) => e.rel \notin TreeFiles

\* A tree was returned in which the node of a directory has no children,
\* the one file in it being turned away by the extension filter.
C20_Witness ==
  /\ pc = "built"
  /\ excludeExts = <<ExtPy>>
  /\ FileEntry(SubAPy, TodoIndented) \in fs
  /\ Cardinality(DirOccurrences(Sub)) = 1
  /\ \A o \in DirOccurrences(Sub) : nodes[nodes[o[1]].Children[o[2]]].Children = <<>>

\* The directories that cannot be listed.
LockedDirs == {d \in fs : d.isDir /\ ~d.readable}

\* The walks of buildDirTree that delivered an entry.
MetIn(rel) == {w \in {"scan", "assemble"} : <<w, rel>> \in visited}

\* The entries a walk delivers after a directory when it is passed over: the
\* ones beside it with a greater name.
LaterSiblings(rel) ==
  {g \in fs : g.rel # RootRel /\ Dir(g.rel) = Dir(rel) /\ StrLess(Base(rel), Base(g.rel))}

\* C21: when a walk of buildDirTree comes to a directory that cannot be
\* read, that walk ends there and no walk is run after it: buildDirTree
\* returns the error of that directory, main exits with it, and nothing is
\* written to the output file, neither tree nor filters block nor separator
\* nor any header or body.
C21_TraversalErrorAbortsBeforeOutput ==
  \A d \in LockedDirs :
    MetIn(d.rel) # {} =>
      /\ pc = "exit1"
      /\ err.msg = "open: permission denied"
      /\ Rel(directory, err.path) = d.rel
      /\ Cardinality(MetIn(d.rel)) = 1
      /\ \A w \in MetIn(d.rel) : \A g \in LaterSiblings(d.rel) : <<w, g.rel>> \notin visited
      /\ "scan" \in MetIn(d.rel) => \A v \in visited : v[1] = "scan"
      /\ \A v \in visited : v[1] # "emit"
      /\ outFile = <<>>
      /\ fileCount = 0

\* The second walk added a file to the tree, then came to a directory it
\* could not read, with an entry still to come after it: main has exited
\* and the output file is empty.
C21_Witness ==
  /\ pc = "exit1"
  /\ \E d \in LockedDirs :
       /\ MetIn(d.rel) = {"assemble"}
       /\ LaterSiblings(d.rel) # {}
  /\ TreeFiles # {}
  /\ outFile = <<>>

\* C22: however the scan root is spelled, tree assembly never fails with
\* "parent node not found": when the second walk comes to an entry that
\* passes the filters, the directory holding it is a key of nodesMap.
C22_ParentAlwaysRegistered ==
  /\ err.msg # "parent node not found"
  /\ (pc = "assemble" /\ todo # <<>>) =>
       LET e == Head(todo) IN
       (AssembleVerdict(e).add \/ AssembleVerdict(e).result = "error") =>
         (walkErr(e).msg # "nil" \/ Dir(e.path) \in nodesMap)

(***************************************************************************)
(* The functions run on their own, on inputs drawn from bounded sets        *)
(***************************************************************************)

\* No run of main is under way.
RunIdle ==
  /\ directory = Dot
  /\ outName = OutTxt
  /\ includeExts = <<>>
  /\ excludeExts = <<>>
  /\ excludedPaths = <<>>
  /\ pattern = <<>>
  /\ noCompactFlag = FALSE
  /\ checkFormatFlag = FALSE
  /\ fs = {}
  /\ todo = <<>>
  /\ patternMatchedFiles = {}
  /\ nodes = <<>>
  /\ nodesMap = {}
  /\ err = NoError
  /\ outFile = <<>>
  /\ fileCount = 0
  /\ stats = <<>>
  /\ visited = {}
  /\ previous = <<>>

idleVars == <<directory, outName, includeExts, excludeExts, excludedPaths, pattern,
              noCompactFlag, checkFormatFlag, fs, todo, patternMatchedFiles, nodes,
              nodesMap, err, outFile, fileCount, stats, visited, previous>>

ExampleContent == <<"d", "e", "f", " ", "f", "(", ")", ":", "\n", " ", " ", " ", " ", "x", " ", "=", " ", "1", "\n", "\n", " ", " ", " ", " ", "r", "e", "t", "u", "r", "n", " ", "x", "\n">>
ExampleTwoSpaces == <<"d", "e", "f", " ", "f", "(", ")", ":", " ", " ", "x", " ", "=", " ", "1", " ", " ", "r", "e", "t", "u", "r", "n", " ", "x">>
ExampleThreeSpaces == <<"d", "e", "f", " ", "f", "(", ")", ":", " ", " ", " ", "x", " ", "=", " ", "1", " ", " ", " ", "r", "e", "t", "u", "r", "n", " ", "x">>

CompactAlphabet == {" ", "\t", "\n", "\r", VT, "a"}
CompactInputs == StringsOver(CompactAlphabet, 0, MaxContentLen) \cup {ExampleContent}

InitCompact ==
  /\ RunIdle
  /\ pc = "split"
  /\ call \in {[fn |-> "compact", content |-> c] : c \in CompactInputs}
  /\ lines = <<>>
  /\ compressed = <<>>
  /\ ret = <<>>

\* The line endings are normalised and the content is split.
CompactSplit ==
  /\ pc = "split"
  /\ lines' = splitLines(call.content)
  /\ pc' = "lines"
  /\ UNCHANGED <<idleVars, call, compressed, ret>>

\* One round of the loop over the lines; after the last line the buffer is
\* written.
CompactNextLine ==
  /\ pc = "lines"
  /\ lines # <<>>
  /\ compressed' = compactLine(compressed, Head(lines))
  /\ lines' = Tail(lines)
  /\ IF Tail(lines) = <<>>
     THEN /\ ret' = compressed'
          /\ pc' = "written"
     ELSE /\ ret' = ret
          /\ pc' = "lines"
  /\ UNCHANGED <<idleVars, call>>

NextCompact == CompactSplit \/ CompactNextLine

SpecCompact == InitCompact /\ [][NextCompact]_vars

NodeModules == <<"n", "o", "d", "e", "_", "m", "o", "d", "u", "l", "e", "s">>
NodeModulesFile == <<"n", "o", "d", "e", "_", "m", "o", "d", "u", "l", "e", "s", "/", "x", ".", "j", "s">>
NodeModules2File == <<"n", "o", "d", "e", "_", "m", "o", "d", "u", "l", "e", "s", "2", "/", "x", ".", "j", "s">>

GlobMeta == {"*", "?", "[", "\\"}
RuleAlphabet == {"n", "m", "/", "*", "?"}
PathAlphabet == {"n", "m", "/"}

\* The relative paths filepath.Rel returns for walked entries: clean ones.
WalkedPaths == {p \in StringsOver(PathAlphabet, 1, MaxPathLen) : Clean(p) = p} \cup {Dot}

MatchInputs ==
  {[fn |-> "isExcludedPath", path |-> p, excludedPaths |-> <<r>>] :
     p \in WalkedPaths, r \in StringsOver(RuleAlphabet, 0, MaxRuleLen)}
  \cup {[fn |-> "isExcludedPath", path |-> p, excludedPaths |-> <<NodeModules>>] :
          p \in {NodeModules, NodeModulesFile, NodeModules2File}}
  \cup {[fn |-> "isExcludedPath", path |-> p, excludedPaths |-> <<StarPy>>] :
          p \in {APy, SubAPy}}

InitMatch ==
  /\ RunIdle
  /\ pc = "call"
  /\ call \in MatchInputs
  /\ lines = <<>>
  /\ compressed = <<>>
  /\ ret = <<>>

ExcludedPathCall ==
  /\ pc = "call"
  /\ call.fn = "isExcludedPath"
  /\ ret' = isExcludedPath(call.path, call.excludedPaths)
  /\ pc' = "returned"
  /\ UNCHANGED <<idleVars, call, lines, compressed>>

SpecMatch == InitMatch /\ [][ExcludedPathCall]_vars

ExtPyc == <<"p", "y", "c">>
ExtPY == <<"P", "Y">>
ExtTxt == <<"t", "x", "t">>
APyc == <<"a", ".", "p", "y", "c">>
ATxt == <<"a", ".", "t", "x", "t">>

ExtPool == {ExtPy, ExtPY, ExtPyc, ExtTxt}
ExtLists == UNION {[1..n -> ExtPool] : n \in 0..MaxExts}
ExtFileNames == {APy, APyc, ATxt, BPY, XBin, SubAPy}

InitExt ==
  /\ RunIdle
  /\ pc = "call"
  /\ call \in {[fn |-> "extFilter", path |-> p, includeExts |-> i, excludeExts |-> x] :
                 p \in ExtFileNames, i \in ExtLists, x \in ExtLists}
  /\ lines = <<>>
  /\ compressed = <<>>
  /\ ret = <<>>

\* The extension filter as the tree passes and as the emission walk apply it.
ExtFilterCall ==
  /\ pc = "call"
  /\ call.fn = "extFilter"
  /\ ret' = [tree |-> extFilterTree(call.path, call.includeExts, call.excludeExts),
             emit |-> extFilterEmit(call.path, call.includeExts, call.excludeExts)]
  /\ pc' = "returned"
  /\ UNCHANGED <<idleVars, call, lines, compressed>>

SpecExt == InitExt /\ [][ExtFilterCall]_vars

\* C3 as stated: the example content compacts to the text with two spaces
\* before each indented line.
C3_ExampleTwoSpaces ==
  (pc = "written" /\ call.content = ExampleContent) => ret = ExampleTwoSpaces

\* C3, amended: the example content compacts to the text with three spaces
\* before each indented line (the separating space, then the two spaces of
\* the depth marker of width 4), the blank line dropped.
C3_ExampleThreeSpaces ==
  (pc = "written" /\ call.content = ExampleContent) => ret = ExampleThreeSpaces

C3_Witness == pc = "written" /\ call.content = ExampleContent /\ Len(ret) = Len(ExampleThreeSpaces)

\* The lines that are not blank, in order.
KeptLines(content) == SelectSeq(splitLines(content), LAMBDA l : TrimSpace(l) # <<>>)

\* The leading indentation width of a line: space 1, tab 4.
LeadingWidth(line) ==
  LET k == CHOOSE n \in 0..Len(line) :
             /\ \A i \in 1..n : line[i] \in {" ", "\t"}
             /\ n = Len(line) \/ line[n + 1] \notin {" ", "\t"}
  IN Cardinality({i \in 1..k : line[i] = " "}) + 4 * Cardinality({i \in 1..k : line[i] = "\t"})

ExpectedPiece(kept, i) ==
  (IF i = 1 THEN <<>> ELSE <<" ">>)
  \o (IF LeadingWidth(kept[i]) > 0 THEN Repeat(" ", 1 + (LeadingWidth(kept[i]) \div 4)) ELSE <<>>)
  \o TrimSpace(kept[i])

ExpectedCompaction(content) ==
  LET kept == KeptLines(content) IN
  JoinWith([i \in 1..Len(kept) |-> ExpectedPiece(kept, i)], <<>>)

\* C4: the compacted output is the concatenation, over the lines that are not
\* blank, of a separating space (not before the first), 1 + floor(w/4) spaces
\* when the leading width w is positive, and the trimmed line.
C4_CompactionFormula ==
  pc = "written" => ret = ExpectedCompaction(call.content)

IndentedSecondLine == <<"a", "\n", "\t", "a">>

C4_Witness ==
  /\ pc = "written"
  /\ call.content = IndentedSecondLine
  /\ ret = <<"a", " ", " ", " ", "a">>

HasMeta(r) == \E i \in 1..Len(r) : r[i] \in GlobMeta
FirstSegment(p) == Split(p, "/")[1]

\* C5: a rule without glob metacharacters excludes the path equal to it and
\* every path that begins with it and a "/", and does not exclude a path whose
\* first segment has the rule as a proper prefix.
C5_PlainRuleIsSegmentPrefix ==
  (pc = "returned" /\ call.fn = "isExcludedPath" /\ ~HasMeta(call.excludedPaths[1])) =>
    LET r == call.excludedPaths[1]
        p == call.path
    IN /\ (p = r \/ HasPrefix(p, r \o <<"/">>)) => ret = TRUE
       /\ (HasPrefix(FirstSegment(p), r) /\ FirstSegment(p) # r) => ret = FALSE

C5_Witness ==
  /\ pc = "returned"
  /\ call.excludedPaths = <<NodeModules>>
  /\ call.path = NodeModules2File
  /\ ret = FALSE

\* C7: the extension filter accepts a file exactly when (the include list is
\* empty or holds its extension) and the exclude list does not hold it, case
\* folded; with include {py} and exclude {pyc}, a.py passes, a.pyc and a.txt
\* do not.
C7_ExtFilter ==
  (pc = "returned" /\ call.fn = "extFilter") =>
    LET ok == ExtAccepted(call.path, call.includeExts, call.excludeExts) IN
    /\ ret.tree = ok
    /\ ret.emit = ok
    /\ (call.includeExts = <<ExtPy>> /\ call.excludeExts = <<ExtPyc>>) =>
         /\ call.path = APy => ret.emit
         /\ call.path \in {APyc, ATxt} => ~ret.emit

\* An extension named in both lists, in different case, is rejected.
C7_Witness ==
  /\ pc = "returned"
  /\ call.fn = "extFilter"
  /\ call.path = APy
  /\ call.includeExts = <<ExtPy>>
  /\ call.excludeExts = <<ExtPY>>
  /\ ~ret.tree
  /\ ~ret.emit

\* A content of whitespace only: every line of it is empty or blank.
AllBlank(content) ==
  \A i \in 1..Len(content) : content[i] \in {" ", "\t", "\n", "\r", VT}

\* C18: a content whose every line is empty or holds whitespace only, the
\* empty content among them, compacts to the empty string.
C18_BlankContentCompactsToEmpty ==
  (pc = "written" /\ AllBlank(call.content)) => ret = <<>>

BlankLines == <<" ", "\n", "\t", "\r">>

\* Blank lines with leading spaces and tabs were compacted.
C18_Witness ==
  /\ pc = "written"
  /\ call.content = BlankLines
  /\ lines = <<>>
  /\ ret = <<>>

HasSlash(p) == \E i \in 1..Len(p) : p[i] = "/"
Stars(r) == {i \in 1..Len(r) : r[i] = "*"}

\* A pattern character against a name character: "?" stands for any one.
CharFits(q, c) == q = "?" \/ q = c

\* A name of one segment against a pattern of literals, "?" and at most one
\* "*": the part before the star fits the head of the name, the part after
\* it the tail.
SegmentFits(r, name) ==
  IF Stars(r) = {}
  THEN Len(name) = Len(r) /\ \A i \in 1..Len(r) : CharFits(r[i], name[i])
  ELSE LET s == CHOOSE i \in Stars(r) : TRUE
           after == Len(r) - s
       IN /\ Len(name) >= Len(r) - 1
          /\ \A i \in 1..(s - 1) : CharFits(r[i], name[i])
          /\ \A i \in 1..after : CharFits(r[s + i], name[Len(name) - after + i])

\* C19: a glob rule without "/" excludes the entry of one segment whose name
\* fits it, and never a path of several segments (the rule not being,
\* letter for letter, the path's leading directory): "*.py" excludes a.py
\* and not sub/a.py.
C19_GlobStaysInOneSegment ==
  (pc = "returned" /\ call.fn = "isExcludedPath") =>
    LET r == call.excludedPaths[1]
        p == call.path
    IN (HasMeta(r) /\ ~HasSlash(r)) =>
         /\ (HasSlash(p) /\ ~HasPrefix(p, r \o <<"/">>)) => ret = FALSE
         /\ (~HasSlash(p) /\ Cardinality(Stars(r)) <= 1 /\ SegmentFits(r, p)) => ret = TRUE
         /\ (r = StarPy /\ p = APy) => ret = TRUE
         /\ (r = StarPy /\ p = SubAPy) => ret = FALSE

\* The rule "*.py" was tried on sub/a.py, whose name fits it, and did not
\* exclude it.
C19_Witness ==
  /\ pc = "returned"
  /\ call.excludedPaths = <<StarPy>>
  /\ call.path = SubAPy
  /\ SegmentFits(StarPy, Base(SubAPy))
  /\ ret = FALSE

\* The files the emission walk came to that pass its tests.
Accepted ==
  {e \in Files : /\ <<"emit", e.rel>> \in visited
                 /\ Survives(e)
                 /\ ~IsOutputFile(e)}

\* The writes after the line of dashes.
FileWrites == SubSeq(outFile, DashAt + 1, Len(outFile))

\* The relative path a header names.
PathOfHeader(w) == SubSeq(w, 4, Len(w) - 4)

\* The order in which a walk delivers two paths of which neither lies above
\* the other: by the names, compared bytewise, at the first segment where
\* they part.
WalkLess(p, q) ==
  LET ps == Split(p, "/")
      qs == Split(q, "/")
      parts == {i \in 1..Len(ps) : i > Len(qs) \/ ps[i] # qs[i]}
  IN /\ parts # {}
     /\ LET k == CHOOSE i \in parts : \A j \in parts : i <= j
        IN k <= Len(qs) /\ StrLess(ps[k], qs[k])

\* C23: in a run that completes, the writes after the separator come in
\* threes, one three for each file the emission walk accepted: the header
\* of the file, its body (compacted unless -nocompact is set) and the blank
\* line gap; no file has two headers; the headers come in the order of the
\* walk; and the count of processed files is the number of headers.
C23_OneHeaderBodyGapPerFile ==
  pc = "done" =>
    LET n == Cardinality(Accepted) IN
    /\ Len(FileWrites) = 3 * n
    /\ fileCount = n
    /\ \A k \in 1..n :
         /\ \E e \in Accepted :
              /\ FileWrites[3 * k - 2] = Header(e.rel)
              /\ FileWrites[3 * k - 1] =
                   (IF noCompactFlag THEN e.content ELSE ExpectedCompaction(e.content))
         /\ FileWrites[3 * k] = <<"\n", "\n">>
    /\ \A e \in Accepted :
         Cardinality({i \in 1..Len(FileWrites) : FileWrites[i] = Header(e.rel)}) = 1
    /\ \A i, j \in 1..n :
         i < j => WalkLess(PathOfHeader(FileWrites[3 * i - 2]), PathOfHeader(FileWrites[3 * j - 2]))

\* A run completed whose tree lists the directory sub before the file a.py,
\* and whose output holds a.py before sub/a.py.
C23_Witness ==
  /\ pc = "done"
  /\ directory = Dot
  /\ nodes[Dot].Children = <<Sub, APy>>
  /\ fileCount = 2
  /\ FileWrites[1] = Header(APy)
  /\ FileWrites[4] = Header(SubAPy)

=============================================================================
